---- MODULE Spec2Model ----
(***************************************************************************)
(* Model of src/api/shorten.py: the /api/shorten handler of Shortify.      *)
(*                                                                         *)
(* The Upstash Redis store is the only shared state: the counter key       *)
(* shortify:counter, the forward keys shortify:slug:<slug> and the reverse *)
(* keys shortify:url:<url>.  Every request runs shorten_url once; the      *)
(* handler holds no lock, so requests (served by separate serverless       *)
(* instances) interleave at the granularity of one store command.          *)
(*                                                                         *)
(* Strings the handler computes on character by character (slugs) are      *)
(* sequences of one-character strings; URLs are strings.                   *)
(***************************************************************************)
EXTENDS Integers, Sequences, FiniteSets, TLC

VARIABLES
    redis_counter,  \* value of key shortify:counter (0 while the key is absent)
    redis_slug,     \* keys shortify:slug:<slug>  : slug -> original URL
    redis_url,      \* keys shortify:url:<url>    : original URL -> slug
    pc,             \* position of each request in shorten_url
    body,           \* the request body each request submitted
    original_url,   \* local original_url
    existing_slug,  \* local existing_slug (result of the lookup GET)
    counter,        \* local counter
    slug,           \* local slug
    response,       \* the ShortenResponse returned, or the error outcome
    calls,          \* store commands issued by each request (GET, INCR, SET)
    pred,           \* the request that completed last before this one arrived,
                    \* while this one has run with no other request in flight
    last_done,      \* the request that completed most recently (0: none yet)
    counterAtDone,  \* value of shortify:counter when last_done completed
    num,            \* codec check: argument of encode_base62
    result,         \* codec check: value returned by encode_base62
    codec_pc        \* codec check: "call" before, "return" after the call

vars == <<redis_counter, redis_slug, redis_url, pc, body, original_url,
          existing_slug, counter, slug, response, calls, pred,
          counterAtDone, last_done, num, result, codec_pc>>

storeVars == <<redis_counter, redis_slug, redis_url>>
reqVars == <<pc, body, original_url, existing_slug, counter, slug, response,
             calls, pred, counterAtDone, last_done>>
codecVars == <<num, result, codec_pc>>

----------------------------------------------------------------------------
(* Bounds *)

NumReqs == 3
MaxNum == 3900
\* requests received in the runs in which store commands fail
FailReqs == 2

Reqs == 1..NumReqs

----------------------------------------------------------------------------
(* Slug codec *)

BASE62_CHARS ==
    <<"0","1","2","3","4","5","6","7","8","9",
      "A","B","C","D","E","F","G","H","I","J","K","L","M",
      "N","O","P","Q","R","S","T","U","V","W","X","Y","Z",
      "a","b","c","d","e","f","g","h","i","j","k","l","m",
      "n","o","p","q","r","s","t","u","v","w","x","y","z">>

\* reversed(result)
RECURSIVE reversed(_)
reversed(s) ==
    IF s = <<>> THEN <<>> ELSE Append(reversed(Tail(s)), Head(s))

\* the while loop of encode_base62: appends the least significant digit first
RECURSIVE encode_loop(_, _)
encode_loop(n, acc) ==
    IF n > 0
    THEN encode_loop(n \div 62, Append(acc, BASE62_CHARS[(n % 62) + 1]))
    ELSE acc

\* variant: result starts as [BASE62_CHARS[0]] instead of []
encode_base62_seeded(n) ==
    IF n = 0 THEN <<BASE62_CHARS[1]>> ELSE reversed(encode_loop(n, <<"0">>))

\* variant: the digits are joined without reversed()
encode_base62_noreverse(n) ==
    IF n = 0 THEN <<BASE62_CHARS[1]>> ELSE encode_loop(n, <<>>)

\* variant: without the num == 0 case
encode_base62_nozero(n) ==
    reversed(encode_loop(n, <<>>))

\* encode_base62(num), lines 77-85
encode_base62(n) ==
    IF n = 0
    THEN <<BASE62_CHARS[1]>>
    ELSE reversed(encode_loop(n, <<>>))

----------------------------------------------------------------------------
(* Store commands *)

\* an optional value: <<>> is Python's None, <<v>> is the value v
None == <<>>
Some(v) == <<v>>

\* redis.get(key): the value, or None when the key is absent
GET(map, key) == IF key \in DOMAIN map THEN Some(map[key]) ELSE None

\* redis.set(key, value): creates or overwrites the key
SET(map, key, value) ==
    [k \in DOMAIN map \cup {key} |-> IF k = key THEN value ELSE map[k]]

\* variant: the key is read, not incremented
INCR_noincrement(c) == c

\* redis.incr(key): the new value of the key
INCR(c) == c + 1

\* variant: the deduplication branch is never taken
Truthy_never(opt) == FALSE

\* truth value of `if existing_slug:` : None and the empty string are false
Truthy(opt) == opt # None /\ opt[1] # <<>>

----------------------------------------------------------------------------
(* Request bodies and the ShortenRequest schema *)

\* Request bodies, by the components the HttpUrl parser finds in them.
Bodies ==
    { [scheme |-> "http",  host |-> "a.com", path |-> ""],
      [scheme |-> "http",  host |-> "a.com", path |-> "/"],
      [scheme |-> "https", host |-> "b.org", path |-> "/x"],
      [scheme |-> "ftp",   host |-> "a.com", path |-> "/"] }

NoBody == [scheme |-> "", host |-> "", path |-> ""]

\* the text of the body's url field as the client sent it
Raw(b) ==
    IF b.scheme = "" THEN b.path ELSE b.scheme \o "://" \o b.host \o b.path

\* variant: url declared as str, every body accepted
ShortenRequest_anystr(b) == TRUE

\* ShortenRequest.url : HttpUrl accepts absolute http/https URLs with a host
ShortenRequest(b) == b.scheme \in {"http", "https"} /\ b.host # ""

\* str(request.url): the text of the parsed HttpUrl.  shorten_url needs the
\* str() because request.url is a Url object, not a str (pydantic 2), whose
\* text is the URL in normalised form: an empty path becomes "/".
str_url(b) ==
    b.scheme \o "://" \o b.host \o (IF b.path = "" THEN "/" ELSE b.path)

NoCalls == [get |-> 0, incr |-> 0, set |-> 0]
NoResponse == [status |-> "pending"]

\* variant: short_url without the leading "/"
ShortenResponse_noslash(s, u) ==
    [status |-> "ok", short_url |-> s, slug |-> s, original_url |-> u]

\* ShortenResponse(short_url=f"/{slug}", slug=slug, original_url=original_url)
ShortenResponse(s, u) ==
    [status |-> "ok", short_url |-> <<"/">> \o s, slug |-> s, original_url |-> u]

InvalidInput == [status |-> "InvalidInput"]

\* the server error a request ends with when a store command raises
StoreUnavailable == [status |-> "StoreUnavailable"]

----------------------------------------------------------------------------
(* Initial state: empty store, no request received *)

InitStore ==
    /\ redis_counter = 0
    /\ redis_slug = <<>>
    /\ redis_url = <<>>

InitReqs ==
    /\ pc = [r \in Reqs |-> "idle"]
    /\ body = [r \in Reqs |-> NoBody]
    /\ original_url = [r \in Reqs |-> ""]
    /\ existing_slug = [r \in Reqs |-> None]
    /\ counter = [r \in Reqs |-> 0]
    /\ slug = [r \in Reqs |-> <<>>]
    /\ response = [r \in Reqs |-> NoResponse]
    /\ calls = [r \in Reqs |-> NoCalls]
    /\ pred = [r \in Reqs |-> 0]
    /\ counterAtDone = 0
    /\ last_done = 0

Init ==
    /\ InitStore
    /\ InitReqs
    /\ num = 0
    /\ result = <<>>
    /\ codec_pc = "idle"

----------------------------------------------------------------------------
(* shorten_url, one action per store command *)

Finished(r) == pc[r] \in {"done", "rejected", "failed"}

InFlight(r) == pc[r] \notin {"idle", "done", "rejected", "failed"}

\* bookkeeping of a step of request r: the other requests in flight no longer
\* run alone
Step(r) == [q \in Reqs |-> IF q # r /\ InFlight(q) THEN 0 ELSE pred[q]]

\* bookkeeping of the completion of request r
Complete(r) ==
    /\ counterAtDone' = redis_counter
    /\ last_done' = r

\* POST /api/shorten arrives; the framework parses the body as ShortenRequest
\* and answers with a client error, without calling the handler, when the
\* url is not an HttpUrl.  Otherwise shorten_url starts: line 130.
Receive(r) ==
    /\ pc[r] = "idle"
    /\ \A q \in Reqs : q < r => pc[q] # "idle"
    /\ \E b \in Bodies :
        /\ body' = [body EXCEPT ![r] = b]
        /\ IF ShortenRequest(b)
           THEN /\ original_url' = [original_url EXCEPT ![r] = str_url(b)]
                /\ pc' = [pc EXCEPT ![r] = "lookup"]
                /\ response' = response
                /\ UNCHANGED <<counterAtDone, last_done>>
           ELSE /\ original_url' = original_url
                /\ pc' = [pc EXCEPT ![r] = "rejected"]
                /\ response' = [response EXCEPT ![r] = InvalidInput]
                /\ Complete(r)
    /\ pred' = [Step(r) EXCEPT
                   ![r] = IF \A q \in Reqs : ~InFlight(q) THEN last_done ELSE 0]
    /\ UNCHANGED <<existing_slug, counter, slug, calls>>
    /\ UNCHANGED storeVars
    /\ UNCHANGED codecVars

\* variant: the counter is taken before the lookup result is tested
RespondExisting_allocating(r, got) ==
    /\ response' = [response EXCEPT ![r] = ShortenResponse(got[1], original_url[r])]
    /\ pc' = [pc EXCEPT ![r] = "done"]
    /\ redis_counter' = INCR(redis_counter)
    /\ counterAtDone' = redis_counter'
    /\ last_done' = r
    /\ UNCHANGED <<redis_slug, redis_url>>

\* lines 135-137: return ShortenResponse(... slug=existing_slug ...)
RespondExisting(r, got) ==
    /\ response' = [response EXCEPT ![r] = ShortenResponse(got[1], original_url[r])]
    /\ pc' = [pc EXCEPT ![r] = "done"]
    /\ Complete(r)
    /\ UNCHANGED storeVars

\* lines 133-137: existing_slug = redis.get(...); if existing_slug: return
Lookup(r) ==
    /\ pc[r] = "lookup"
    /\ LET got == GET(redis_url, original_url[r]) IN
        /\ existing_slug' = [existing_slug EXCEPT ![r] = got]
        /\ calls' = [calls EXCEPT ![r].get = @ + 1]
        /\ IF Truthy(got)
           THEN RespondExisting(r, got)
           ELSE /\ response' = response
                /\ pc' = [pc EXCEPT ![r] = "allocate"]
                /\ UNCHANGED <<counterAtDone, last_done>>
                /\ UNCHANGED storeVars
    /\ pred' = Step(r)
    /\ UNCHANGED <<body, original_url, counter, slug>>
    /\ UNCHANGED codecVars

\* variant: the value is computed locally from a read of the key
get_next_counter_cached(r) ==
    /\ redis_counter' = redis_counter
    /\ counter' = [counter EXCEPT ![r] = redis_counter + 1]

\* variant: the value before the increment is returned
get_next_counter_previous(r) ==
    /\ redis_counter' = INCR(redis_counter)
    /\ counter' = [counter EXCEPT ![r] = redis_counter]

\* get_next_counter(): counter = redis.incr("shortify:counter")
get_next_counter(r) ==
    /\ redis_counter' = INCR(redis_counter)
    /\ counter' = [counter EXCEPT ![r] = redis_counter']

\* lines 140-141: counter = get_next_counter(); slug = encode_base62(counter)
Allocate(r) ==
    /\ pc[r] = "allocate"
    /\ get_next_counter(r)
    /\ slug' = [slug EXCEPT ![r] = encode_base62(counter'[r])]
    /\ calls' = [calls EXCEPT ![r].incr = @ + 1]
    /\ pc' = [pc EXCEPT ![r] = "persist_slug"]
    /\ pred' = Step(r)
    /\ UNCHANGED <<redis_slug, redis_url>>
    /\ UNCHANGED <<body, original_url, existing_slug, response,
                   counterAtDone, last_done>>
    /\ UNCHANGED codecVars

\* variant: the forward write is left out
PersistSlug_unwritten(r) ==
    /\ pc[r] = "persist_slug"
    /\ calls' = [calls EXCEPT ![r].set = @ + 1]
    /\ pc' = [pc EXCEPT ![r] = "persist_url"]
    /\ pred' = Step(r)
    /\ UNCHANGED storeVars
    /\ UNCHANGED <<body, original_url, existing_slug, counter, slug, response,
                   counterAtDone, last_done>>
    /\ UNCHANGED codecVars

\* line 145: redis.set(f"shortify:slug:{slug}", original_url)
PersistSlug(r) ==
    /\ pc[r] = "persist_slug"
    /\ redis_slug' = SET(redis_slug, slug[r], original_url[r])
    /\ calls' = [calls EXCEPT ![r].set = @ + 1]
    /\ pc' = [pc EXCEPT ![r] = "persist_url"]
    /\ pred' = Step(r)
    /\ UNCHANGED <<redis_counter, redis_url>>
    /\ UNCHANGED <<body, original_url, existing_slug, counter, slug, response,
                   counterAtDone, last_done>>
    /\ UNCHANGED codecVars

\* variant: the reverse write is left out
set_url_skipped(r) == redis_url' = redis_url

\* line 147: redis.set(f"shortify:url:{original_url}", slug)
set_url(r) == redis_url' = SET(redis_url, original_url[r], slug[r])

\* lines 147-149: redis.set(f"shortify:url:{original_url}", slug); return
PersistUrl(r) ==
    /\ pc[r] = "persist_url"
    /\ set_url(r)
    /\ calls' = [calls EXCEPT ![r].set = @ + 1]
    /\ response' = [response EXCEPT ![r] = ShortenResponse(slug[r], original_url[r])]
    /\ pc' = [pc EXCEPT ![r] = "done"]
    /\ Complete(r)
    /\ pred' = Step(r)
    /\ UNCHANGED <<redis_counter, redis_slug>>
    /\ UNCHANGED <<body, original_url, existing_slug, counter, slug>>
    /\ UNCHANGED codecVars

Next ==
    \/ \E r \in Reqs : Receive(r)
    \/ \E r \in Reqs : Lookup(r)
    \/ \E r \in Reqs : Allocate(r)
    \/ \E r \in Reqs : PersistSlug(r)
    \/ \E r \in Reqs : PersistUrl(r)

Spec == Init /\ [][Next]_vars

----------------------------------------------------------------------------
(* Store commands that fail.  A command of the Redis client raises when the  *)
(* store is unreachable, answers with an error or times out; the store may   *)
(* or may not have applied the command.  shorten_url has no try/except, so   *)
(* the exception ends the request; a process that dies at a store command    *)
(* leaves the store in the same states.                                      *)

\* the exception leaves shorten_url: the request ends with a server error
Raise(r) ==
    /\ pc' = [pc EXCEPT ![r] = "failed"]
    /\ response' = [response EXCEPT ![r] = StoreUnavailable]
    /\ counterAtDone' = redis_counter'
    /\ last_done' = r
    /\ pred' = Step(r)
    /\ UNCHANGED <<body, original_url, existing_slug, counter, slug>>
    /\ UNCHANGED codecVars

\* line 133: redis.get raises
FailGet(r) ==
    /\ pc[r] = "lookup"
    /\ calls' = [calls EXCEPT ![r].get = @ + 1]
    /\ UNCHANGED storeVars
    /\ Raise(r)

\* variant: the exception is caught and a counter value is made up locally
FailIncr_fabricated(r) ==
    /\ pc[r] = "allocate"
    /\ calls' = [calls EXCEPT ![r].incr = @ + 1]
    /\ UNCHANGED storeVars
    /\ counter' = [counter EXCEPT ![r] = 1]
    /\ slug' = [slug EXCEPT ![r] = encode_base62(1)]
    /\ pc' = [pc EXCEPT ![r] = "persist_slug"]
    /\ pred' = Step(r)
    /\ UNCHANGED <<body, original_url, existing_slug, response, counterAtDone,
                   last_done>>
    /\ UNCHANGED codecVars

\* line 95: redis.incr raises; the increment may have been applied
FailIncr(r) ==
    /\ pc[r] = "allocate"
    /\ calls' = [calls EXCEPT ![r].incr = @ + 1]
    /\ \E applied \in BOOLEAN :
          redis_counter' = IF applied THEN INCR(redis_counter) ELSE redis_counter
    /\ UNCHANGED <<redis_slug, redis_url>>
    /\ Raise(r)

\* line 145: redis.set of the forward key raises; it may have been written
FailSetSlug(r) ==
    /\ pc[r] = "persist_slug"
    /\ calls' = [calls EXCEPT ![r].set = @ + 1]
    /\ \E applied \in BOOLEAN :
          redis_slug' = IF applied
                        THEN SET(redis_slug, slug[r], original_url[r])
                        ELSE redis_slug
    /\ UNCHANGED <<redis_counter, redis_url>>
    /\ Raise(r)

\* line 147: redis.set of the reverse key raises; it may have been written
FailSetUrl(r) ==
    /\ pc[r] = "persist_url"
    /\ calls' = [calls EXCEPT ![r].set = @ + 1]
    /\ \E applied \in BOOLEAN :
          redis_url' = IF applied
                       THEN SET(redis_url, original_url[r], slug[r])
                       ELSE redis_url
    /\ UNCHANGED <<redis_counter, redis_slug>>
    /\ Raise(r)

\* the runs with failing commands receive the first FailReqs requests only
FailScope == \A r \in Reqs : r > FailReqs => pc[r] = "idle"

NextFail ==
    \/ Next /\ FailScope'
    \/ \E r \in Reqs : FailGet(r)
    \/ \E r \in Reqs : FailIncr(r)
    \/ \E r \in Reqs : FailSetSlug(r)
    \/ \E r \in Reqs : FailSetUrl(r)

SpecFail == Init /\ [][NextFail]_vars

----------------------------------------------------------------------------
(* encode_base62 applied to every argument of 0..MaxNum *)

InitCodec ==
    /\ InitStore
    /\ InitReqs
    /\ num \in 0..MaxNum
    /\ result = <<>>
    /\ codec_pc = "call"

Encode ==
    /\ codec_pc = "call"
    /\ result' = encode_base62(num)
    /\ codec_pc' = "return"
    /\ UNCHANGED num
    /\ UNCHANGED storeVars
    /\ UNCHANGED reqVars

NextCodec == Encode

SpecCodec == InitCodec /\ [][NextCodec]_vars

----------------------------------------------------------------------------
(* Notions the properties below are stated with *)

Alphabet == {BASE62_CHARS[i] : i \in 1..Len(BASE62_CHARS)}

\* digit value of an alphabet character: its position in 0-9, A-Z, a-z
DigitOf ==
    [c \in Alphabet |-> (CHOOSE i \in 1..Len(BASE62_CHARS) : BASE62_CHARS[i] = c) - 1]
Digit(c) == DigitOf[c]

\* value of a base-62 numeral, most significant digit first
RECURSIVE decode(_)
decode(s) ==
    IF s = <<>>
    THEN 0
    ELSE decode(SubSeq(s, 1, Len(s) - 1)) * 62 + Digit(s[Len(s)])

RECURSIVE Pow62(_)
Pow62(k) == IF k = 0 THEN 1 ELSE 62 * Pow62(k - 1)

\* a precedes b in alphabet order, for strings of the same length
LexLess(a, b) ==
    \E i \in 1..Len(a) :
        /\ Digit(a[i]) < Digit(b[i])
        /\ \A j \in 1..(i - 1) : a[j] = b[j]

\* encode_base62 over the checked range, evaluated once
Encoded == [m \in 0..MaxNum |-> encode_base62(m)]

\* the submitted text and the normalised form of every body, evaluated once
Submitted == [b \in Bodies \cup {NoBody} |-> Raw(b)]
Normalised == [b \in Bodies \cup {NoBody} |-> str_url(b)]

Returned == codec_pc = "return"

\* the request obtained a counter value (it passed Allocate)
Allocated(r) == calls[r].incr > 0

\* the request got a ShortenResponse
Ok(r) == pc[r] = "done" /\ response[r].status = "ok"

\* the claims' notion of a well-formed absolute http/https URL
AbsoluteHttpUrl(b) == b.scheme \in {"http", "https"} /\ b.host # ""

\* no request is between its two Persist writes
NoneBetweenWrites == \A r \in Reqs : pc[r] # "persist_url"

\* two requests both missed the lookup and minted a slug for the same URL
Raced(u) ==
    \E r1, r2 \in Reqs :
        /\ r1 # r2
        /\ Allocated(r1) /\ Allocated(r2)
        /\ original_url[r1] = u /\ original_url[r2] = u

----------------------------------------------------------------------------
(* Properties of the slug codec, under SpecCodec *)

\* C4: decoding encode_base62(n) as a base-62 numeral over 0-9, A-Z, a-z,
\* most significant digit first, gives back n, for every n of 0..MaxNum; so
\* no two integers of the range have the same encoding (every pair is
\* compared at its larger member).
C4_RoundTrip ==
    Returned =>
        /\ decode(result) = num
        /\ \A m \in 0..(num - 1) : Encoded[m] # result

C4_Witness == Returned /\ num = MaxNum /\ Len(result) >= 3

\* C5: encode(0) = "0", encode(61) = "z", encode(62) = "10",
\* encode(1000) = "g8".
C5_Vectors ==
    Returned =>
        /\ num = 0 => result = <<"0">>
        /\ num = 61 => result = <<"z">>
        /\ num = 62 => result = <<"1", "0">>
        /\ num = 1000 => result = <<"g", "8">>

\* C6: encode_base62(n) is the minimal-length base-62 representation of n,
\* most significant digit first: it is not empty, all its characters are of
\* the alphabet, its value is n, it has the least number of digits that can
\* hold n, encode(0) is "0", and for n > 0 its first character is not "0".
C6_Minimal ==
    Returned =>
        /\ Len(result) >= 1
        /\ \A i \in 1..Len(result) : result[i] \in Alphabet
        /\ decode(result) = num
        /\ num < Pow62(Len(result))
        /\ num = 0 => result = <<"0">>
        /\ num > 0 => result[1] # "0" /\ Pow62(Len(result) - 1) <= num

C6_Witness == Returned /\ num = 62 /\ result[1] = "1" /\ result[2] = "0"

\* C7: for all 0 <= n < m, encode(n) is not longer than encode(m), and when
\* the two have the same length encode(n) precedes encode(m) in alphabet
\* order; encode(61) has length 1 and encode(62) has length 2.
C7_OrderPreserved ==
    Returned =>
        /\ \A m \in (num + 1)..MaxNum :
              LET e == Encoded[m] IN
              /\ Len(result) <= Len(e)
              /\ Len(result) = Len(e) => LexLess(result, e)
        /\ num = 61 => Len(result) = 1
        /\ num = 62 => Len(result) = 2

C7_Witness == Returned /\ num = 61 /\ Len(Encoded[62]) = 2

----------------------------------------------------------------------------
(* Properties of shorten_url, under Spec *)

\* C1: in every interleaving of the requests' store commands, no two
\* requests that passed Allocate hold the same counter value, and no two
\* hold the same slug.
C1_UniqueCounters ==
    \A r1, r2 \in Reqs :
        (r1 # r2 /\ Allocated(r1) /\ Allocated(r2)) =>
            /\ counter[r1] # counter[r2]
            /\ slug[r1] # slug[r2]

\* two requests hold their counter values at the same time, both before
\* their first write
C1_Witness ==
    \E r1, r2 \in Reqs :
        /\ r1 # r2
        /\ pc[r1] = "persist_slug" /\ pc[r2] = "persist_slug"
        /\ original_url[r1] = original_url[r2]

\* C2: when a request for a URL runs from arrival to completion with no
\* other request in flight, and the request that completed last before it
\* arrived was for the same URL, the step that completes it returns the slug
\* the first one returned and leaves the counter at the value it had when
\* the first one completed.
C2_SequentialRepeat ==
    [][\A r1, r2 \in Reqs :
        (/\ pc[r2] # "done" /\ Ok(r2)'
         /\ pred[r2] = r1 /\ Ok(r1)
         /\ Submitted[body[r1]] = Submitted[body[r2]]) =>
            /\ response'[r2].slug = response[r1].slug
            /\ last_done = r1
            /\ redis_counter' = counterAtDone]_vars

C2_Witness ==
    \E r1, r2 \in Reqs :
        /\ Ok(r1) /\ Ok(r2)
        /\ pred[r2] = r1 /\ last_done = r2
        /\ Submitted[body[r1]] = Submitted[body[r2]]
        /\ Allocated(r1) /\ ~Allocated(r2)
        /\ response[r2].slug = response[r1].slug

\* C3 as stated: requests that submitted distinct URLs got distinct slugs,
\* and the forward entry of each returned slug holds the URL as submitted.
C3_AsSubmitted ==
    /\ \A r1, r2 \in Reqs :
          (Ok(r1) /\ Ok(r2) /\ Submitted[body[r1]] # Submitted[body[r2]]) =>
              response[r1].slug # response[r2].slug
    /\ \A r \in Reqs :
          Ok(r) => GET(redis_slug, response[r].slug) = Some(Submitted[body[r]])

\* C3, amended: requests whose URLs differ in normalised form
\* (str(request.url)) got distinct slugs, and the forward entry of each
\* returned slug holds the normalised form of the URL submitted for it.
C3_Normalised ==
    /\ \A r1, r2 \in Reqs :
          (Ok(r1) /\ Ok(r2) /\ Normalised[body[r1]] # Normalised[body[r2]]) =>
              response[r1].slug # response[r2].slug
    /\ \A r \in Reqs :
          Ok(r) => GET(redis_slug, response[r].slug) = Some(Normalised[body[r]])

C3_Witness ==
    \E r1, r2 \in Reqs :
        /\ Ok(r1) /\ Ok(r2)
        /\ Normalised[body[r1]] # Normalised[body[r2]]
        /\ response[r1].slug # response[r2].slug
        /\ redis_slug[response[r1].slug] = Normalised[body[r1]]
        /\ redis_slug[response[r2].slug] = Normalised[body[r2]]

\* C8: the step of a request whose lookup hits completes the request with
\* the stored slug and leaves the counter, the forward mapping and the
\* reverse mapping unchanged; the request has issued no INCR and no SET.
C8_HitChangesNothing ==
    [][\A r \in Reqs :
        (/\ pc[r] = "lookup" /\ pc'[r] # "lookup"
         /\ Truthy(GET(redis_url, original_url[r]))) =>
            /\ Ok(r)'
            /\ response'[r].slug = redis_url[original_url[r]]
            /\ redis_counter' = redis_counter
            /\ redis_slug' = redis_slug
            /\ redis_url' = redis_url
            /\ calls'[r] = [get |-> 1, incr |-> 0, set |-> 0]]_vars

C8_Witness ==
    \E r \in Reqs :
        /\ Ok(r) /\ Truthy(existing_slug[r])
        /\ calls[r] = [get |-> 1, incr |-> 0, set |-> 0]
        /\ last_done = r /\ redis_counter = counterAtDone

\* C9 as stated: whenever no request is between its two Persist writes, the
\* forward mapping holds slug -> URL iff the reverse mapping holds
\* URL -> slug.
C9_Iff ==
    NoneBetweenWrites =>
        \A s \in DOMAIN redis_slug, u \in DOMAIN redis_url :
            (redis_slug[s] = u) <=> (redis_url[u] = s)

\* C9, amended: whenever no request is between its two Persist writes, a
\* reverse entry URL -> slug has the forward entry slug -> URL, and a
\* forward entry slug -> URL has a reverse entry for URL, which holds that
\* slug unless two requests that both missed the lookup minted slugs for
\* the URL.
C9_Paired ==
    NoneBetweenWrites =>
        /\ \A u \in DOMAIN redis_url :
              GET(redis_slug, redis_url[u]) = Some(u)
        /\ \A s \in DOMAIN redis_slug :
              /\ redis_slug[s] \in DOMAIN redis_url
              /\ redis_url[redis_slug[s]] = s \/ Raced(redis_slug[s])

C9_Witness ==
    /\ NoneBetweenWrites
    /\ \E s1, s2 \in DOMAIN redis_slug :
          /\ s1 # s2
          /\ redis_slug[s1] # redis_slug[s2]
          /\ redis_url[redis_slug[s1]] = s1
          /\ redis_url[redis_slug[s2]] = s2

\* C10: a request whose input is not a well-formed absolute http/https URL
\* ends with InvalidInput and has issued no GET, no INCR and no SET.
C10_InvalidInput ==
    \A r \in Reqs :
        (pc[r] # "idle" /\ ~AbsoluteHttpUrl(body[r])) =>
            /\ pc[r] = "rejected"
            /\ response[r] = InvalidInput
            /\ calls[r] = NoCalls

C10_Witness ==
    \E r \in Reqs :
        /\ pc[r] = "rejected"
        /\ ~AbsoluteHttpUrl(body[r])
        /\ response[r] = InvalidInput
        /\ redis_counter > 0

----------------------------------------------------------------------------
(* Properties of shorten_url when store commands fail, under SpecFail *)

\* the request ended because a store command raised
Failed(r) == pc[r] = "failed"

\* C11: a request one of whose store commands (the lookup GET, the INCR or
\* either SET) fails ends with an error and no slug, and issues no store
\* command after the failing one; after a failed INCR there is no SET and no
\* slug, and a request that goes on to Persist holds the value the store's
\* INCR returned in that step, never one made up locally.
C11_FailFast ==
    [][\A r \in Reqs :
        /\ Failed(r)' =>
              /\ response'[r] = StoreUnavailable
              /\ calls'[r] \in { [get |-> 1, incr |-> 0, set |-> 0],
                                 [get |-> 1, incr |-> 1, set |-> 0],
                                 [get |-> 1, incr |-> 1, set |-> 1],
                                 [get |-> 1, incr |-> 1, set |-> 2] }
              /\ calls'[r].set = 0 => slug'[r] = <<>> /\ counter'[r] = 0
        /\ Failed(r) =>
              /\ Failed(r)'
              /\ calls'[r] = calls[r]
              /\ response'[r] = response[r]
        /\ (pc[r] = "allocate" /\ pc'[r] # "allocate") =>
              \/ Failed(r)'
              \/ /\ pc'[r] = "persist_slug"
                 /\ redis_counter' = redis_counter + 1
                 /\ counter'[r] = redis_counter'
                 /\ slug'[r] = encode_base62(redis_counter')]_vars

\* a request's INCR failed and, after that, another request minted a slug
C11_Witness ==
    \E r, q \in Reqs :
        /\ Failed(r) /\ calls[r] = [get |-> 1, incr |-> 1, set |-> 0]
        /\ Ok(q) /\ Allocated(q) /\ last_done = q
        /\ redis_url = [u \in {original_url[q]} |-> slug[q]]

\* C18: in every reachable state, also after a request failed or died
\* between its two Persist writes, a reverse entry URL -> slug has the
\* forward entry slug -> URL.
C18_ReverseHasForward ==
    \A u \in DOMAIN redis_url : GET(redis_slug, redis_url[u]) = Some(u)

\* a request failed at its second write and left a forward entry with no
\* reverse entry, while another URL has both
C18_Witness ==
    \E r \in Reqs :
        /\ Failed(r) /\ calls[r].set = 2
        /\ GET(redis_slug, slug[r]) = Some(original_url[r])
        /\ original_url[r] \notin DOMAIN redis_url
        /\ DOMAIN redis_url # {}

----------------------------------------------------------------------------
(* Further properties of shorten_url, under Spec *)

\* the request is past a missed lookup and has not returned yet
Minting(r) == pc[r] \in {"allocate", "persist_slug", "persist_url"}

\* the step is the store command of request r at position p
Leaves(r, p) == pc[r] = p /\ pc'[r] # p

\* C12 as stated: every ShortenResponse has short_url = "/" + slug and
\* original_url = the URL as submitted, and the slug of a request that
\* minted one is encode_base62 of the counter value it obtained.
C12_AsSubmitted ==
    \A r \in Reqs :
        Ok(r) =>
            /\ response[r].short_url = <<"/">> \o response[r].slug
            /\ response[r].original_url = Submitted[body[r]]
            /\ Allocated(r) => response[r].slug = encode_base62(counter[r])

\* C12, amended: every ShortenResponse, new slug or existing one, has
\* short_url = "/" + slug and original_url = the normalised form
\* (str(request.url)) of the URL submitted, and the slug of a request that
\* minted one is encode_base62 of the counter value it obtained.
C12_Response ==
    \A r \in Reqs :
        Ok(r) =>
            /\ response[r].short_url = <<"/">> \o response[r].slug
            /\ response[r].original_url = Normalised[body[r]]
            /\ Allocated(r) => response[r].slug = encode_base62(counter[r])

C12_Witness ==
    \E r1, r2 \in Reqs :
        /\ Ok(r1) /\ Allocated(r1) /\ response[r1].short_url = <<"/", "1">>
        /\ Ok(r2) /\ ~Allocated(r2) /\ response[r2].short_url = <<"/", "1">>
        /\ Submitted[body[r2]] # Normalised[body[r2]]

\* C13 as stated: no step changes the value of a reverse entry that exists.
C13_ReverseNeverChanges ==
    [][\A u \in DOMAIN redis_url :
        u \in DOMAIN redis_url' /\ redis_url'[u] = redis_url[u]]_vars

\* C13, amended: a reverse entry that exists is never removed, and its value
\* is changed only by the second write of a request for the same URL whose
\* lookup found no entry (it ran before the entry was written), which puts
\* its own newly minted slug there.
C13_ReverseChangesOnlyByRace ==
    [][\A u \in DOMAIN redis_url :
        /\ u \in DOMAIN redis_url'
        /\ redis_url'[u] # redis_url[u] =>
              \E r \in Reqs :
                  /\ Leaves(r, "persist_url")
                  /\ original_url[r] = u
                  /\ existing_slug[r] = None
                  /\ redis_url'[u] = slug[r]
                  /\ Raced(u)]_vars

\* an entry was overwritten: it holds the slug of the second of two
\* requests that raced, both of which have returned
C13_Witness ==
    \E r1, r2 \in Reqs, u \in DOMAIN redis_url :
        /\ r1 # r2 /\ Ok(r1) /\ Ok(r2) /\ last_done = r2
        /\ Allocated(r1) /\ Allocated(r2)
        /\ original_url[r1] = u /\ original_url[r2] = u
        /\ redis_url[u] = slug[r2]

\* C14: no step changes or removes a forward entry that exists.
C14_ForwardNeverChanges ==
    [][\A s \in DOMAIN redis_slug :
        s \in DOMAIN redis_slug' /\ redis_slug'[s] = redis_slug[s]]_vars

\* forward entries for two URLs, written by requests that have returned
C14_Witness ==
    \E r1, r2 \in Reqs :
        /\ Ok(r1) /\ Ok(r2) /\ Allocated(r1) /\ Allocated(r2)
        /\ original_url[r1] # original_url[r2]
        /\ redis_slug[slug[r1]] = original_url[r1]
        /\ redis_slug[slug[r2]] = original_url[r2]

\* C15: no step lowers the counter; a step changes it only as the INCR of a
\* request past a missed lookup, by exactly 1, and the value that request
\* gets is greater than every value obtained before; after every step each
\* request past its INCR has issued exactly one INCR, every other request
\* none, and the counter is the number of INCRs issued.
C15_CounterMonotonic ==
    [][/\ redis_counter' >= redis_counter
       /\ redis_counter' # redis_counter =>
             \E r \in Reqs :
                 /\ Leaves(r, "allocate")
                 /\ existing_slug[r] = None
                 /\ redis_counter' = redis_counter + 1
                 /\ counter'[r] = redis_counter'
                 /\ \A q \in Reqs : Allocated(q) => counter[q] < counter'[r]
       /\ \A r \in Reqs :
             /\ Leaves(r, "allocate") => redis_counter' = redis_counter + 1
             /\ calls'[r].incr =
                   IF \/ pc'[r] \in {"persist_slug", "persist_url"}
                      \/ pc'[r] = "done" /\ existing_slug'[r] = None
                   THEN 1 ELSE 0
       /\ redis_counter' = Cardinality({r \in Reqs : Allocated(r)'})]_vars

\* three values were handed out, in increasing order of the INCRs
C15_Witness ==
    /\ redis_counter = NumReqs
    /\ \A r \in Reqs : Allocated(r) /\ counter[r] \in 1..NumReqs
    /\ \E r \in Reqs : Ok(r) /\ counter[r] = NumReqs

\* C16: every slug of the forward mapping is encode_base62(k) for a counter
\* value k that was issued, 1 <= k <= the counter; the slug "0" is not
\* stored.
C16_SlugsAreIssuedValues ==
    /\ \A s \in DOMAIN redis_slug :
          \E k \in 1..redis_counter : s = encode_base62(k)
    /\ <<"0">> \notin DOMAIN redis_slug

C16_Witness ==
    /\ redis_counter = 2
    /\ DOMAIN redis_slug = {<<"1">>, <<"2">>}

\* C17: when two requests for the same URL both missed the lookup and have
\* returned, their slugs are distinct, both are in the forward mapping and
\* both map to that URL.
C17_RaceMintsTwo ==
    \A r1, r2 \in Reqs :
        (/\ r1 # r2 /\ Ok(r1) /\ Ok(r2)
         /\ Allocated(r1) /\ Allocated(r2)
         /\ original_url[r1] = original_url[r2]) =>
            /\ response[r1].slug # response[r2].slug
            /\ GET(redis_slug, response[r1].slug) = Some(original_url[r1])
            /\ GET(redis_slug, response[r2].slug) = Some(original_url[r1])

\* the race happened: two requests for a URL no request had shortened
\* before both missed and both returned a new slug
C17_Witness ==
    \E r1, r2 \in Reqs :
        /\ r1 # r2 /\ Ok(r1) /\ Ok(r2)
        /\ existing_slug[r1] = None /\ existing_slug[r2] = None
        /\ original_url[r1] = original_url[r2]
        /\ redis_counter = 2
        /\ response[r1].slug # response[r2].slug
        /\ redis_slug[response[r1].slug] = redis_slug[response[r2].slug]

\* C19: once a URL has a reverse entry and no request for it is past a
\* missed lookup (so: a request completed both writes and none for the URL
\* is in flight), that stays so; the entry keeps its value, which is a slug
\* minted for the URL; every request for the URL that then runs its lookup
\* returns that slug; and no INCR is issued for the URL.
C19_Converged ==
    /\ [](\A u \in DOMAIN redis_url :
            (\A q \in Reqs : Minting(q) => original_url[q] # u) =>
                \E q \in Reqs :
                    Allocated(q) /\ original_url[q] = u /\ slug[q] = redis_url[u])
    /\ [][\A u \in DOMAIN redis_url :
            (\A q \in Reqs : Minting(q) => original_url[q] # u) =>
                /\ u \in DOMAIN redis_url' /\ redis_url'[u] = redis_url[u]
                /\ \A q \in Reqs : Minting(q)' => original_url'[q] # u
                /\ \A r \in Reqs :
                      (Leaves(r, "lookup") /\ original_url[r] = u) =>
                          /\ Ok(r)'
                          /\ response'[r].slug = redis_url[u]
                          /\ redis_counter' = redis_counter]_vars

\* two requests raced for a URL; a third arrived after both had returned
\* and got the slug the reverse entry holds
C19_Witness ==
    \E r1, r2, r3 \in Reqs :
        /\ r1 # r2 /\ Ok(r1) /\ Ok(r2) /\ Allocated(r1) /\ Allocated(r2)
        /\ original_url[r1] = original_url[r2]
        /\ Ok(r3) /\ ~Allocated(r3) /\ pred[r3] \in {r1, r2}
        /\ original_url[r3] = original_url[r1]
        /\ response[r3].slug = redis_url[original_url[r3]]
        /\ response[r3].slug \in {slug[r1], slug[r2]}
        /\ redis_counter = 2

====
